---- MODULE Spec2Model ----
(***************************************************************************)
(* Model of python_sample.py: the time-windowed retrieval of gzip'ed,      *)
(* line-delimited JSON objects from an S3 prefix into output.csv.          *)
(*                                                                         *)
(*   main            parses and validates the arguments                    *)
(*   get_s3_keys     pages through list_objects_v2 and prunes by key name  *)
(*   retrieve_objects truncates output.csv, then drains the keys in order  *)
(*                                                                         *)
(* The object store is the environment: what each list call and each get   *)
(* call returns is chosen when the call is made.                           *)
(***************************************************************************)
EXTENDS Integers, Sequences, FiniteSets, TLC

(***************************************************************************)
(* Bounds of the model.                                                    *)
(***************************************************************************)
MaxSec == 2        \* --start_time / --end_time range over 0..MaxSec
MaxPages == 2      \* list_objects_v2 calls of one run
MaxListed == 2     \* keys listed by one run, over all its pages
MaxRecs == 2       \* records of one object

(***************************************************************************)
(* pd.to_datetime(t, unit='s') turns seconds into the time scale of the    *)
(* records' Timestamp column, which is finer than a second.                *)
(***************************************************************************)
TicksPerSecond == 2

to_datetime(t) == t * TicksPerSecond

MaxTick == to_datetime(MaxSec + 1) - 1

WantedType == "OrderTradeReportEvent"
OtherType == "OrderNewEvent"

None == "None"

(***************************************************************************)
(* Keys.  A key is its directory, the underscore-separated tokens of its   *)
(* basename and its dot-separated extensions; a date or time token is its  *)
(* dash-separated parts, each <<TRUE, n>> for the digits of n or           *)
(* <<FALSE, 0>> for text int() rejects.                                    *)
(***************************************************************************)
Num(n) == <<TRUE, n>>
Txt == <<FALSE, 0>>

Date1970 == <<Num(1970), Num(1), Num(1)>>

KeyNames ==
  << \* prefix/1970-01-01_00-00-00_a.json.gz
     [dir |-> "prefix/", stem |-> <<Date1970, <<Num(0), Num(0), Num(0)>>, <<Txt>>>>, exts |-> 2],
     \* prefix/1970-01-01_00-00-01_b.json.gz
     [dir |-> "prefix/", stem |-> <<Date1970, <<Num(0), Num(0), Num(1)>>, <<Txt>>>>, exts |-> 2],
     \* 1970-01-01_00-00-02_c.json.gz.bak : no directory, a third extension
     [dir |-> "", stem |-> <<Date1970, <<Num(0), Num(0), Num(2)>>, <<Txt>>>>, exts |-> 3],
     \* prefix/1970-01-01_00-00-01.json.gz : two tokens
     [dir |-> "prefix/", stem |-> <<Date1970, <<Num(0), Num(0), Num(1)>>>>, exts |-> 2],
     \* prefix/1970-Jan-01_00-00-01_e.json.gz : a month that is no integer
     [dir |-> "prefix/", stem |-> <<<<Num(1970), Txt, Num(1)>>, <<Num(0), Num(0), Num(1)>>, <<Txt>>>>, exts |-> 2],
     \* prefix/1970-01-01_00-00-60_f.json.gz : no such second
     [dir |-> "prefix/", stem |-> <<Date1970, <<Num(0), Num(0), Num(60)>>, <<Txt>>>>, exts |-> 2] >>

KeyIds == 1..Len(KeyNames)

(***************************************************************************)
(* get_last_timestamp: the epoch seconds of the key's name, or ValueError. *)
(***************************************************************************)
ValueError == "ValueError"

\* os.path.basename(filename).rsplit('.', 2)[0].split('_'): the directory and
\* the last two extensions go; an earlier extension stays in the last token.
SplitName(key) == key.stem

AllInt(tok) == \A j \in 1..Len(tok) : tok[j][1]

IsLeap(y) == (y % 4 = 0 /\ y % 100 # 0) \/ y % 400 = 0

DaysInMonth(y, m) ==
  IF m = 2 THEN (IF IsLeap(y) THEN 29 ELSE 28)
  ELSE IF m \in {4, 6, 9, 11} THEN 30 ELSE 31

\* datetime(year, month, day, hour, minute, second) accepts these only
ValidDatetime(y, m, d, hh, mm, ss) ==
  /\ y \in 1..9999
  /\ m \in 1..12
  /\ d \in 1..DaysInMonth(y, m)
  /\ hh \in 0..23
  /\ mm \in 0..59
  /\ ss \in 0..59

\* days from 1970-01-01 to y-m-d in the proleptic Gregorian calendar
DaysFromCivil(y, m, d) ==
  LET yy == IF m <= 2 THEN y - 1 ELSE y
      era == yy \div 400
      yoe == yy - era * 400
      mp == (m + 9) % 12
      doy == (153 * mp + 2) \div 5 + d - 1
      doe == yoe * 365 + yoe \div 4 - yoe \div 100 + doy
  IN era * 146097 + doe - 719468

\* dt.replace(tzinfo=pytz.utc).timestamp()
UtcTimestamp(y, m, d, hh, mm, ss) ==
  DaysFromCivil(y, m, d) * 86400 + hh * 3600 + mm * 60 + ss

Raise(e) == [raised |-> e, value |-> 0]
Return(v) == [raised |-> None, value |-> v]

get_last_timestamp(key) ==
  LET toks == SplitName(key)
  IN IF Len(toks) # 3 THEN Raise(ValueError)
     ELSE LET date == toks[1]
              time == toks[2]
          IN IF Len(date) # 3 \/ ~AllInt(date) THEN Raise(ValueError)
             ELSE IF Len(time) # 3 \/ ~AllInt(time) THEN Raise(ValueError)
             ELSE IF ~ValidDatetime(date[1][2], date[2][2], date[3][2],
                                    time[1][2], time[2][2], time[3][2])
                  THEN Raise(ValueError)
             ELSE Return(UtcTimestamp(date[1][2], date[2][2], date[3][2],
                                      time[1][2], time[2][2], time[3][2]))

(***************************************************************************)
(* The object store's answers.                                             *)
(***************************************************************************)
Tokens == {"t1", "t2"}

\* the non-empty sequences over S of length at most n
SeqsUpTo(S, n) == UNION {[1..m -> S] : m \in 1..n}

\* list_objects_v2: a ClientError, or a page; S3 leaves 'Contents' out of a
\* page without keys and 'NextContinuationToken' out of the last page.
ListResponses(room, more) ==
  {[err |-> "ClientError", hasContents |-> FALSE, Contents |-> <<>>, Next |-> None]}
  \cup {[err |-> None, hasContents |-> FALSE, Contents |-> <<>>, Next |-> t] :
          t \in (IF more THEN Tokens ELSE {}) \cup {None}}
  \cup {[err |-> None, hasContents |-> TRUE, Contents |-> c, Next |-> t] :
          c \in SeqsUpTo(KeyIds, room),
          t \in (IF more THEN Tokens ELSE {}) \cup {None}}

Records == [Timestamp : 0..MaxTick, Type : {WantedType, OtherType}]

NoRec == [Timestamp |-> 0, Type |-> None]

\* get_object and the payload's decoding: what goes wrong, or the records
GetFailures == {"ClientError", "EndpointConnectionError"}
BodyFailures == {"BadGzipFile", "EOFError", "UnicodeDecodeError", "NoTimestamp", "Empty"}

\* recs: the records of the object's well-formed lines; a "NotJson" object has
\* a malformed line besides them.
GetResponses ==
  {[get |-> g, body |-> None, recs |-> <<>>] : g \in GetFailures}
  \cup {[get |-> "ok", body |-> b, recs |-> <<>>] : b \in BodyFailures}
  \cup {[get |-> "ok", body |-> "NotJson", recs |-> r] :
          r \in {<<>>} \cup SeqsUpTo(Records, MaxRecs - 1)}
  \cup {[get |-> "ok", body |-> "Records", recs |-> r] : r \in SeqsUpTo(Records, MaxRecs)}

NoResponse == [get |-> None, body |-> None, recs |-> <<>>]

(***************************************************************************)
(* The state.                                                              *)
(***************************************************************************)
VARIABLES
  args,       \* the parsed command line
  pc,         \* where the run is
  kwargs,     \* get_s3_keys: the ContinuationToken of the next call, or None
  reqs,       \* get_s3_keys: the token each list call carried
  resps,      \* get_s3_keys: the pages received
  keys,       \* the keys collected by get_s3_keys, then drained
  i,          \* retrieve_objects: position of the next key in keys
  response,   \* retrieve_objects: what the last get returned
  output,     \* the lines of output.csv
  log,        \* what was printed
  exc,        \* the exception that ended the run, or None
  listCalls,  \* list_objects_v2 calls the store has seen
  fetched,    \* positions in keys of the get_object calls the store has seen
  opens,      \* times output.csv was opened for writing
  recording,  \* whether the store's answers are kept (fixed by Init)
  pagesSeen,  \* if recording: every answer to a list call of the first run
  gotten,     \* if recording: every answer to a get call of the first run
  run,        \* 1 in the first run of the program, 2 in the second
  outputs     \* output.csv as each finished run left it

\* what the store answered and what earlier runs left
hist == <<recording, pagesSeen, gotten, run, outputs>>

vars == <<args, pc, kwargs, reqs, resps, keys, i, response, output, log, exc,
          listCalls, fetched, opens, hist>>

OldLine == [kind |-> "old", key |-> 0, rec |-> NoRec]
HeaderLine == [kind |-> "header", key |-> 0, rec |-> NoRec]
Row(k, r) == [kind |-> "row", key |-> k, rec |-> r]

Msg(m, k) == [msg |-> m, key |-> k]

Init ==
  /\ args \in [bucket : {"", "bucket"}, prefix : {"", "prefix/"},
               start_time : 0..MaxSec, end_time : 0..MaxSec]
  /\ pc = "Idle"
  /\ kwargs = None
  /\ reqs = <<>>
  /\ resps = <<>>
  /\ keys = <<>>
  /\ i = 0
  /\ response = NoResponse
  /\ output \in {<<>>, <<OldLine>>}
  /\ log = <<>>
  /\ exc = None
  /\ listCalls = 0
  /\ fetched = <<>>
  /\ opens = 0
  /\ recording = FALSE
  /\ pagesSeen = <<>>
  /\ gotten = <<>>
  /\ run = 1
  /\ outputs = <<>>

(***************************************************************************)
(* main, up to the call of get_s3_keys.                                    *)
(***************************************************************************)
\* ArgsError with > for >=
ArgsError_Strict(a) ==
  IF a.bucket = "" THEN "Please provide the name of the S3 bucket"
  ELSE IF a.prefix = "" THEN "Please provide the prefix of the files"
  ELSE IF a.start_time # 0 /\ a.end_time # 0
       THEN (IF a.start_time > a.end_time
             THEN "Error: End time must be greater than start time"
             ELSE None)
  ELSE "Please provide both --start_time and --end_time as Unix timestamps"

\* what main prints before it returns early, or None when it goes on
ArgsError(a) ==
  IF a.bucket = "" THEN "Please provide the name of the S3 bucket"
  ELSE IF a.prefix = "" THEN "Please provide the prefix of the files"
  ELSE IF a.start_time # 0 /\ a.end_time # 0
       THEN (IF a.start_time >= a.end_time
             THEN "Error: End time must be greater than start time"
             ELSE None)
  ELSE "Please provide both --start_time and --end_time as Unix timestamps"

Main ==
  /\ pc = "Idle"
  /\ LET m == ArgsError(args)
     IN /\ pc' = IF m = None THEN "Listing" ELSE "Done"
        /\ log' = IF m = None THEN log ELSE Append(log, Msg(m, 0))
  /\ UNCHANGED <<args, kwargs, reqs, resps, keys, i, response, output, exc,
                 listCalls, fetched, opens, hist>>

(***************************************************************************)
(* get_s3_keys.                                                            *)
(***************************************************************************)
\* Pruned with <= for <
Pruned_OrEqual(ts, start_time) == ts <= start_time

\* if get_last_timestamp(key) < start_time: continue
Pruned(ts, start_time) == ts < start_time

\* the for loop over one page: [keys, raised] after it ends or raises
RECURSIVE ScanPage(_, _, _)
ScanPage(ks, contents, start_time) ==
  IF contents = <<>> THEN [keys |-> ks, raised |-> None]
  ELSE LET key == Head(contents)
           ts == get_last_timestamp(KeyNames[key])
       IN IF ts.raised # None THEN [keys |-> ks, raised |-> ts.raised]
          ELSE IF Pruned(ts.value, start_time) THEN ScanPage(ks, Tail(contents), start_time)
          ELSE ScanPage(Append(ks, key), Tail(contents), start_time)

\* the keys of the pages, in the order the store listed them
RECURSIVE Flatten(_)
Flatten(pages) ==
  IF pages = <<>> THEN <<>> ELSE Head(pages).Contents \o Flatten(Tail(pages))

\* AfterPage with the exception taken for the end of the listing
AfterPage_Swallow(raised, next) ==
  IF raised # None THEN "Listed"
  ELSE IF next # None THEN "Listing" ELSE "Listed"

\* where get_s3_keys is after one page: an exception leaves it and main, a
\* token goes round the loop, no token breaks out of it
AfterPage(raised, next) ==
  IF raised # None THEN "Done"
  ELSE IF next # None THEN "Listing" ELSE "Listed"

\* CarryToken with the token never put into kwargs
CarryToken_Dropped(kw, raised, next) == kw

\* kwargs['ContinuationToken'] = resp['NextContinuationToken']
CarryToken(kw, raised, next) ==
  IF raised = None /\ next # None THEN next ELSE kw

\* what the store answers to the next list call: in a second run against the
\* unchanged archive, what it answered to the same call of the first run
ListAnswers ==
  IF run > 1 THEN {pagesSeen[listCalls + 1]}
  ELSE ListResponses(MaxListed - Len(Flatten(resps)), listCalls + 1 < MaxPages)

\* one turn of the while loop: the call, the page's keys, the token
ListPage ==
  /\ pc = "Listing"
  /\ listCalls < MaxPages
  /\ \E r \in ListAnswers :
       LET scan == ScanPage(keys, r.Contents, args.start_time)
           raised == IF r.err # None THEN r.err
                     ELSE IF ~r.hasContents THEN "KeyError"
                     ELSE scan.raised
       IN /\ reqs' = Append(reqs, kwargs)
          /\ listCalls' = listCalls + 1
          /\ resps' = IF r.err # None THEN resps ELSE Append(resps, r)
          /\ keys' = IF r.err # None \/ ~r.hasContents THEN keys ELSE scan.keys
          /\ exc' = raised
          /\ kwargs' = CarryToken(kwargs, raised, r.Next)
          /\ pc' = AfterPage(raised, r.Next)
          /\ pagesSeen' = IF recording /\ run = 1 THEN Append(pagesSeen, r) ELSE pagesSeen
  /\ UNCHANGED <<args, i, response, output, log, fetched, opens, recording, gotten,
                 run, outputs>>

\* return keys: the frame of get_s3_keys goes, main has the keys
ReturnKeys ==
  /\ pc = "Listed"
  /\ pc' = "Retrieve"
  /\ kwargs' = None
  /\ reqs' = <<>>
  /\ resps' = <<>>
  /\ UNCHANGED <<args, keys, i, response, output, log, exc, listCalls, fetched,
                 opens, hist>>

(***************************************************************************)
(* retrieve_objects.                                                       *)
(***************************************************************************)
\* Truncated with the file opened for appending only
Truncated_Kept(out) == out

\* with open('output.csv', 'w') as f_output: pass
Truncated(out) == <<>>

\* open('output.csv', 'w') empties the file; open('output.csv', 'a') follows
OpenOutput ==
  /\ pc = "Retrieve"
  /\ output' = Truncated(output)
  /\ opens' = opens + 2
  /\ i' = 1
  /\ pc' = "Draining"
  /\ UNCHANGED <<args, kwargs, reqs, resps, keys, response, log, exc,
                 listCalls, fetched, hist>>

\* isinstance(e, cls) for the exceptions of the model
IsInstance(e, cls) ==
  \/ e = cls
  \/ cls = "ValueError" /\ e = "UnicodeDecodeError"

\* what lines 63-66 raise before the first comparison, or None: get_object its
\* error, gzip and the text decoder theirs, pd.read_json a ValueError, and
\* df['Timestamp'] a KeyError when the frame has no such column
RaisedByDecode(r) ==
  IF r.get # "ok" THEN r.get
  ELSE IF r.body \in {"BadGzipFile", "EOFError", "UnicodeDecodeError"} THEN r.body
  ELSE IF r.body = "NotJson" THEN "ValueError"
  ELSE IF r.body \in {"NoTimestamp", "Empty"} THEN "KeyError"
  ELSE None

\* df[df['Type'] == "OrderTradeReportEvent"]
FilterType(recs) == SelectSeq(recs, LAMBDA rec : rec.Type = WantedType)

\* FilterWindow with > and < for >= and <=
FilterWindow_Open(recs, start_time, end_time) ==
  SelectSeq(recs, LAMBDA rec : rec.Timestamp > start_time /\ rec.Timestamp < end_time)

\* FilterWindow without its upper comparison
FilterWindow_NoUpper(recs, start_time, end_time) ==
  SelectSeq(recs, LAMBDA rec : rec.Timestamp >= start_time)

\* df[(df['Timestamp'] >= start_time) & (df['Timestamp'] <= end_time)]
FilterWindow(recs, start_time, end_time) ==
  SelectSeq(recs, LAMBDA rec : rec.Timestamp >= start_time /\ rec.Timestamp <= end_time)

\* Verdict with the elif looking at the last record
Verdict_BreakOnLast(recs, start_time, end_time) ==
  IF recs[Len(recs)].Timestamp < start_time THEN "continue"
  ELSE IF recs[Len(recs)].Timestamp > end_time THEN "break"
  ELSE "filter"

\* Verdict with <= for < in the if
Verdict_SkipAtStart(recs, start_time, end_time) ==
  IF recs[Len(recs)].Timestamp <= start_time THEN "continue"
  ELSE IF recs[1].Timestamp > end_time THEN "break"
  ELSE "filter"

\* Verdict with the elif skipping the object instead of ending the loop
Verdict_ContinueForBreak(recs, start_time, end_time) ==
  IF recs[Len(recs)].Timestamp < start_time THEN "continue"
  ELSE IF recs[1].Timestamp > end_time THEN "continue"
  ELSE "filter"

\* the if / elif on the last and the first record
Verdict(recs, start_time, end_time) ==
  IF recs[Len(recs)].Timestamp < start_time THEN "continue"
  ELSE IF recs[1].Timestamp > end_time THEN "break"
  ELSE "filter"

\* to_csv with header=True
to_csv_HeaderAlways(out, k, batch) ==
  <<HeaderLine>> \o [j \in 1..Len(batch) |-> Row(k, batch[j])]

\* df.to_csv(f_output, header=f_output.tell() == 0, index=False)
to_csv(out, k, batch) ==
  (IF Len(out) = 0 THEN <<HeaderLine>> ELSE <<>>)
    \o [j \in 1..Len(batch) |-> Row(k, batch[j])]

\* Written with the lines read before a malformed line kept
Written_Salvage(out, k, r, start_time, end_time) ==
  IF RaisedByDecode(r) # None /\ r.body # "NotJson" THEN <<>>
  ELSE IF r.recs = <<>> THEN <<>>
  ELSE IF Verdict(r.recs, start_time, end_time) # "filter" THEN <<>>
  ELSE LET batch == FilterWindow(FilterType(r.recs), start_time, end_time)
       IN IF batch = <<>> THEN <<>> ELSE to_csv(out, k, batch)

\* the lines one object adds to the file
Written(out, k, r, start_time, end_time) ==
  IF RaisedByDecode(r) # None THEN <<>>
  ELSE IF Verdict(r.recs, start_time, end_time) # "filter" THEN <<>>
  ELSE LET batch == FilterWindow(FilterType(r.recs), start_time, end_time)
       IN IF batch = <<>> THEN <<>> ELSE to_csv(out, k, batch)

\* the except clauses: what is printed, and what leaves the handler uncaught
ExceptPrinted(e) ==
  IF IsInstance(e, "ClientError") THEN "Failed to read data from"
  ELSE IF IsInstance(e, "KeyError") THEN None
  ELSE IF IsInstance(e, "ValueError") THEN "Failed to parse JSON from"
  ELSE None

Uncaught(e) ==
  IF e = None THEN None
  ELSE IF IsInstance(e, "ClientError") THEN None
  ELSE IF IsInstance(e, "KeyError") THEN "NameError"
  ELSE IF IsInstance(e, "ValueError") THEN None
  ELSE e

\* AfterKey with the key tried again
AfterKey_Retry(k, ended, raised) ==
  IF ended \/ raised # None THEN k ELSE k + 1

\* the key the for loop takes next: the following one, unless the loop ended
AfterKey(k, ended, raised) == IF ended THEN k ELSE k + 1

\* what the store answers to the next get call: in a second run against the
\* unchanged archive, what it answered to the same call of the first run
GetAnswers == IF run > 1 THEN {gotten[i]} ELSE GetResponses

\* one turn of the for loop
DrainKey ==
  /\ pc = "Draining"
  /\ i <= Len(keys)
  /\ \E r \in GetAnswers :
       LET start_time == to_datetime(args.start_time)
           end_time == to_datetime(args.end_time)
           e == RaisedByDecode(r)
           out == Uncaught(e)
           stop == e = None /\ Verdict(r.recs, start_time, end_time) = "break"
       IN /\ response' = r
          /\ fetched' = Append(fetched, i)
          /\ output' = output \o Written(output, i, r, start_time, end_time)
          /\ log' = IF e # None /\ ExceptPrinted(e) # None
                    THEN Append(log, Msg(ExceptPrinted(e), i))
                    ELSE log
          /\ exc' = out
          /\ pc' = IF out # None \/ stop THEN "Done" ELSE "Draining"
          /\ i' = AfterKey(i, out # None \/ stop, e)
          /\ gotten' = IF recording /\ run = 1 THEN Append(gotten, r) ELSE gotten
  /\ UNCHANGED <<args, kwargs, reqs, resps, keys, listCalls, opens, recording,
                 pagesSeen, run, outputs>>

\* the for loop of retrieve_objects as a function: the file after the objects
\* from the n-th on, whose answers are cs, were drained into out
RECURSIVE Drain(_, _, _, _, _)
Drain(cs, n, out, start_time, end_time) ==
  IF n > Len(cs) THEN out
  ELSE LET r == cs[n]
           e == RaisedByDecode(r)
           stop == e = None /\ Verdict(r.recs, start_time, end_time) = "break"
           out2 == out \o Written(out, n, r, start_time, end_time)
       IN IF Uncaught(e) # None \/ stop THEN out2
          ELSE Drain(cs, n + 1, out2, start_time, end_time)

\* the keys are used up: output.csv is closed, main returns
DrainEnd ==
  /\ pc = "Draining"
  /\ i > Len(keys)
  /\ pc' = "Done"
  /\ UNCHANGED <<args, kwargs, reqs, resps, keys, i, response, output, log, exc,
                 listCalls, fetched, opens, hist>>

Next == Main \/ ListPage \/ ReturnKeys \/ OpenOutput \/ DrainKey \/ DrainEnd

Spec == Init /\ [][Next]_vars

\* the interpreter runs the program on: a step that can be taken is taken
FairSpec == Spec /\ WF_vars(Next)

(***************************************************************************)
(* The same command line run a second time against the same archive: the   *)
(* store gives the second process the answers it gave the first.           *)
(***************************************************************************)
InitHist ==
  /\ args \in [bucket : {"", "bucket"}, prefix : {"", "prefix/"},
               start_time : 0..MaxSec, end_time : 0..MaxSec]
  /\ pc = "Idle"
  /\ kwargs = None
  /\ reqs = <<>>
  /\ resps = <<>>
  /\ keys = <<>>
  /\ i = 0
  /\ response = NoResponse
  /\ output \in {<<>>, <<OldLine>>}
  /\ log = <<>>
  /\ exc = None
  /\ listCalls = 0
  /\ fetched = <<>>
  /\ opens = 0
  /\ recording = TRUE
  /\ pagesSeen = <<>>
  /\ gotten = <<>>
  /\ run = 1
  /\ outputs = <<>>

\* the first process has ended; a new one starts with the same sys.argv and
\* finds output.csv as the first one left it
Rerun ==
  /\ pc = "Done"
  /\ recording
  /\ run = 1
  /\ run' = 2
  /\ outputs' = Append(outputs, output)
  /\ pc' = "Idle"
  /\ kwargs' = None
  /\ reqs' = <<>>
  /\ resps' = <<>>
  /\ keys' = <<>>
  /\ i' = 0
  /\ response' = NoResponse
  /\ log' = <<>>
  /\ exc' = None
  /\ listCalls' = 0
  /\ fetched' = <<>>
  /\ opens' = 0
  /\ UNCHANGED <<args, output, recording, pagesSeen, gotten>>

NextTwice == Next \/ Rerun

SpecTwice == InitHist /\ [][NextTwice]_vars

\* one run, with the store's answers kept
SpecHist == InitHist /\ [][Next]_vars

(***************************************************************************)
(* Properties.                                                             *)
(***************************************************************************)
WinStart == to_datetime(args.start_time)
WinEnd == to_datetime(args.end_time)

Range(f) == {f[x] : x \in DOMAIN f}

IsRow(line) == line.kind = "row"
RowsOf(k) == SelectSeq(output, LAMBDA line : IsRow(line) /\ line.key = k)

\* position in keys of the object the last get_object call asked for
LastKey == Len(fetched)

Parsed == response.get = "ok" /\ response.body = "Records"
FirstTs == response.recs[1].Timestamp
LastTs == response.recs[Len(response.recs)].Timestamp

InWindow(rec) == WinStart <= rec.Timestamp /\ rec.Timestamp <= WinEnd
Matches(rec) == rec.Type = WantedType /\ InWindow(rec)

\* C1: every data row of output.csv is a record of an object that was fetched,
\* has Type "OrderTradeReportEvent" and a Timestamp inside the closed window;
\* a row of the object fetched last is one of that object's records.
C1_FilteringInvariant ==
  \A n \in 1..Len(output) :
    IsRow(output[n]) =>
      /\ output[n].rec.Type = WantedType
      /\ WinStart <= output[n].rec.Timestamp
      /\ output[n].rec.Timestamp <= WinEnd
      /\ output[n].key \in Range(fetched)
      /\ output[n].key = LastKey => Parsed /\ output[n].rec \in Range(response.recs)

\* an object with a record that must stay out has put a row into the file
C1_Witness ==
  /\ Parsed
  /\ RowsOf(LastKey) # <<>>
  /\ \E rec \in Range(response.recs) : ~InWindow(rec)

\* C2 (as claimed): an object that fails to decompress or to parse is caught,
\* logged with its key and skipped; the run goes on.
C2_DecodeFailureIsolated ==
  (response.get = "ok" /\ response.body \in {"BadGzipFile", "EOFError", "UnicodeDecodeError", "NotJson"})
    => /\ exc = None
       /\ i = LastKey + 1
       /\ log # <<>>
       /\ log[Len(log)].key = LastKey

\* C3 (as claimed): a get that fails is logged with its key and skipped; the
\* run goes on and ends without an exception.
C3_FetchFailureIsolated ==
  response.get \in GetFailures
    => /\ exc = None
       /\ i = LastKey + 1
       /\ log # <<>>
       /\ log[Len(log)] = Msg("Failed to read data from", LastKey)

\* C4 (as claimed): once the first record of a fetched object is after the
\* window's end, the run is over: no later key is fetched, no row is added.
C4_StopsOnFirstAfterEnd ==
  (Parsed /\ FirstTs > WinEnd) => pc = "Done"

\* C4 (amended): once the first record of a fetched object is after the
\* window's end and its last record is not before the window's start, the
\* object adds no row and the run is over; nothing is fetched or written
\* after the run is over.
C4_EarlyTermination ==
  /\ [](Parsed /\ FirstTs > WinEnd /\ LastTs >= WinStart
          => pc = "Done" /\ exc = None /\ RowsOf(LastKey) = <<>>)
  /\ [][pc = "Done" => fetched' = fetched /\ output' = output /\ pc' = "Done"]_vars

\* the first of two keys ended the run: the second was never fetched
C4_Witness ==
  /\ Parsed
  /\ FirstTs > WinEnd
  /\ LastTs >= WinStart
  /\ pc = "Done"
  /\ Len(keys) = 2
  /\ fetched = <<1>>

\* the name is not <date>_<time>_<suffix> with three integers in date and time
ConventionMismatch(key) ==
  \/ Len(key.stem) # 3
  \/ \E t \in 1..2 :
       /\ t <= Len(key.stem)
       /\ Len(key.stem[t]) # 3 \/ \E j \in 1..Len(key.stem[t]) : ~key.stem[t][j][1]

\* C5 (as claimed): a listed key whose name does not match the convention
\* does not fail the listing and is kept among the candidate keys.
C5_MalformedKeyRetained ==
  \A n \in 1..Len(resps) : \A j \in 1..Len(resps[n].Contents) :
    ConventionMismatch(KeyNames[resps[n].Contents[j]])
      => exc = None /\ resps[n].Contents[j] \in Range(keys)

EndTime(k) == get_last_timestamp(KeyNames[k]).value

\* C6: when the listing ends, the candidate keys are the keys of the pages in
\* the order listed, without those whose end-time is before start_time: a key
\* whose end-time is start_time stays, nothing is reordered or merged.
C6_PruningResult ==
  pc = "Listed" =>
    keys = SelectSeq(Flatten(resps), LAMBDA k : EndTime(k) >= args.start_time)

\* two pages, a key that ends before start_time and a key that ends at it
C6_Witness ==
  /\ pc = "Listed"
  /\ Len(resps) = 2
  /\ \E k \in Range(Flatten(resps)) : EndTime(k) < args.start_time
  /\ \E k \in Range(Flatten(resps)) : EndTime(k) = args.start_time

Failed(r) == ~(r.get = "ok" /\ r.body = "Records")

\* C7: a turn of the loop whose get or decoding fails leaves output.csv as it
\* was: the earlier rows stay and the failing object adds no line.
C7_OutputUnchangedOnFailure ==
  [][(pc = "Draining" /\ fetched' # fetched /\ Failed(response')) => output' = output]_vars

\* rows of the first key are in the file; the second key has a malformed line
\* after a record that matches
C7_Witness ==
  /\ LastKey = 2
  /\ RowsOf(1) # <<>>
  /\ response.body = "NotJson"
  /\ \E rec \in Range(response.recs) : Matches(rec)

Headers == SelectSeq(output, LAMBDA line : line.kind = "header")
Rows == SelectSeq(output, IsRow)

\* C8: once output.csv was opened, it is empty when no batch was written, and
\* otherwise it is one header line followed by rows only.
C8_HeaderOnce ==
  opens > 0 =>
    /\ Rows = <<>> => output = <<>>
    /\ Rows # <<>> => Len(Headers) = 1 /\ output[1] = HeaderLine
    /\ Len(output) = Len(Headers) + Len(Rows)

\* two objects wrote a batch each
C8_Witness ==
  /\ RowsOf(1) # <<>>
  /\ RowsOf(2) # <<>>

\* C9: an exception in the listing ends the run at once: no get_object call is
\* made and output.csv is not opened.
C9_ListingFailureFatal ==
  (exc # None /\ i = 0) =>
    /\ pc = "Done"
    /\ fetched = <<>>
    /\ opens = 0
    /\ output \in {<<>>, <<OldLine>>}

\* the second list call failed after the first page had a candidate key
C9_Witness ==
  /\ exc = "ClientError"
  /\ listCalls = 2
  /\ keys # <<>>
  /\ pc = "Done"
  /\ output = <<OldLine>>

\* C10: with start_time >= end_time the run makes no list call and no get call
\* and does not open output.csv; it prints one message and ends.
C10_InvalidWindowFailsFast ==
  args.start_time >= args.end_time =>
    /\ listCalls = 0
    /\ fetched = <<>>
    /\ opens = 0
    /\ exc = None
    /\ output \in {<<>>, <<OldLine>>}
    /\ pc \in {"Idle", "Done"}
    /\ pc = "Done" => Len(log) = 1
    /\ (pc = "Done" /\ args.bucket # "" /\ args.prefix # "" /\ args.start_time # 0
          /\ args.end_time # 0)
         => log = <<Msg("Error: End time must be greater than start time", 0)>>

\* a run with start_time = end_time has ended
C10_Witness ==
  /\ pc = "Done"
  /\ args.bucket # ""
  /\ args.prefix # ""
  /\ args.start_time # 0
  /\ args.start_time = args.end_time

\* C12: the first list call carries no token and each later call the token of
\* the page before it; the loop is left after the first page without a token
\* and no list call follows; the listing comes to an end.
C12_PaginationProtocol ==
  /\ [](/\ reqs # <<>> => reqs[1] = None
        /\ \A n \in 2..Len(reqs) : resps[n - 1].Next # None /\ reqs[n] = resps[n - 1].Next
        /\ pc \in {"Listing", "Listed"} => Len(reqs) = listCalls /\ Len(resps) = listCalls
        /\ (pc = "Listing" /\ resps # <<>>) => kwargs = resps[Len(resps)].Next /\ kwargs # None
        /\ pc = "Listed" => resps[Len(resps)].Next = None)
  /\ [][pc # "Listing" => listCalls' = listCalls]_vars
  /\ (pc = "Listing" ~> pc # "Listing")

\* the second call carried the token of the first page and got the last page
C12_Witness ==
  /\ pc = "Listed"
  /\ Len(reqs) = 2
  /\ reqs[2] = "t2"
  /\ resps[1].Next = "t2"

RowRecs(k) == [n \in 1..Len(RowsOf(k)) |-> RowsOf(k)[n].rec]

\* C13: an object that parsed and is neither skipped (last record before the
\* window) nor ending the run (first record after it) has put into the file,
\* in their order, all its records of the wanted Type with
\* start <= Timestamp <= end.
C13_Completeness ==
  (Parsed /\ ~(LastTs < WinStart) /\ ~(FirstTs > WinEnd))
    => RowRecs(LastKey) = SelectSeq(response.recs, Matches)

\* a record exactly at the start and one exactly at the end, both written
C13_Witness ==
  /\ Parsed
  /\ response.recs = <<[Timestamp |-> WinStart, Type |-> WantedType],
                       [Timestamp |-> WinEnd, Type |-> WantedType]>>
  /\ Len(RowsOf(LastKey)) = 2

\* C14: an object whose last record is before the window's start adds no row
\* and the loop goes on with the next key; an object whose last record is
\* exactly at the start is filtered, not skipped.
C14_SkipRule ==
  /\ (Parsed /\ LastTs < WinStart)
       => /\ RowsOf(LastKey) = <<>>
          /\ exc = None
          /\ i = LastKey + 1
          /\ pc = "Done" => i > Len(keys)
  /\ (Parsed /\ LastTs = WinStart /\ FirstTs <= WinEnd)
       => RowRecs(LastKey) = SelectSeq(response.recs, Matches)

\* the first of two keys was skipped although its first record matches, and
\* the second key is next
C14_Witness ==
  /\ Parsed
  /\ LastTs < WinStart
  /\ Matches(response.recs[1])
  /\ LastKey = 1
  /\ Len(keys) = 2
  /\ pc = "Draining"

\* C15: the keys are fetched one at a time in their order, each once; a run
\* that ends without an exception has fetched every key up to the one that
\* ended the loop; the rows are in key order and, within one object, in the
\* order of its records.
C15_DrainOrder ==
  /\ \A n \in 1..Len(fetched) : fetched[n] = n
  /\ Len(fetched) <= Len(keys)
  /\ pc = "Draining" => i = Len(fetched) + 1
  /\ \A a, b \in 1..Len(Rows) : a < b => Rows[a].key <= Rows[b].key
  /\ Parsed => RowRecs(LastKey)
                 = SelectSeq(response.recs, LAMBDA rec : rec \in Range(RowRecs(LastKey)))
  /\ (pc = "Done" /\ exc = None /\ opens > 0)
       => \/ Len(fetched) = Len(keys)
          \/ Parsed /\ FirstTs > WinEnd /\ LastTs >= WinStart

\* both keys were fetched; the first one added no row, the second one did
C15_Witness ==
  /\ pc = "Done"
  /\ fetched = <<1, 2>>
  /\ RowsOf(1) = <<>>
  /\ RowsOf(2) # <<>>

\* C16 (as claimed, its second half): the loop over the keys is left only when
\* the keys are used up or an object's first record is after the window.
C16_DoneOnlyWhenExhaustedOrStopped ==
  (pc = "Done" /\ opens > 0)
    => \/ i > Len(keys)
       \/ Parsed /\ FirstTs > WinEnd

\* C19 (as claimed): an object without a Timestamp column is logged with its
\* key and skipped; the run goes on.
C19_NoTimestampIsolated ==
  (response.get = "ok" /\ response.body \in {"NoTimestamp", "Empty"})
    => /\ exc = None
       /\ i = LastKey + 1
       /\ log # <<>>
       /\ log[Len(log)].key = LastKey

\* C20 (as claimed): a page without keys does not fail the listing: the loop
\* follows its token or ends with the keys collected so far.
C20_EmptyPageTolerated ==
  (resps # <<>> /\ ~resps[Len(resps)].hasContents)
    => exc = None /\ pc \in {"Listing", "Listed"}

\* C11: a second run with the same arguments against the same archive leaves
\* output.csv as the first run left it: at most one header, the same rows in
\* the same order, no row of the first run carried over.
C11_Idempotence ==
  (run = 2 /\ pc = "Done")
    => /\ output = outputs[1]
       /\ Len(Headers) <= 1

\* the second run has ended after writing rows of two objects over the file
\* the first run had left
C11_Witness ==
  /\ run = 2
  /\ pc = "Done"
  /\ outputs[1] # <<>>
  /\ RowsOf(1) # <<>>
  /\ RowsOf(2) # <<>>

\* the lines of a file without the number of the object they came from
Plain(out) == [n \in 1..Len(out) |-> [kind |-> out[n].kind, rec |-> out[n].rec]]

Listed == Flatten(pagesSeen)

\* the place among the candidate keys of the n-th listed key
Candidate(n) ==
  Len(SelectSeq(SubSeq(Listed, 1, n), LAMBDA k : EndTime(k) >= args.start_time))

IsPruned(n) == EndTime(Listed[n]) < args.start_time

Decoded(r) == r.get = "ok" /\ r.body = "Records"

\* the archive's rule: no record of an object is later than the end-time in
\* the object's name
NameBoundsRecords(k, r) ==
  \A j \in 1..Len(r.recs) : r.recs[j].Timestamp <= to_datetime(EndTime(k))

\* what an object that was not fetched may hold under the archive's rule
Lawful(k) ==
  {[get |-> "ok", body |-> "Records", recs |-> rs] :
     rs \in SeqsUpTo({rec \in Records : rec.Timestamp <= to_datetime(EndTime(k))}, MaxRecs)}

\* the contents the n-th listed object may have: what the run got from it, or
\* anything lawful when the run did not fetch it
Holds(n) ==
  IF ~IsPruned(n) /\ Candidate(n) <= Len(gotten) THEN {gotten[Candidate(n)]}
  ELSE Lawful(Listed[n])

RECURSIVE Archives(_)
Archives(n) ==
  IF n = 0 THEN {<<>>}
  ELSE {Append(cs, r) : cs \in Archives(n - 1), r \in Holds(n)}

\* a run that listed and drained without an exception, every object fetched
\* decoded and within the archive's rule
C17_Lawful ==
  /\ pc = "Done"
  /\ opens > 0
  /\ exc = None
  /\ \A c \in 1..Len(gotten) :
       Decoded(gotten[c]) /\ NameBoundsRecords(keys[c], gotten[c])

\* C17: under the archive's rule and with every object decoding, the file the
\* run leaves is the file a drain of every listed key would leave, whatever the
\* pruned objects hold; the run fetches no more objects than keys were listed.
\* (The run's own file is the drain of the objects it fetched.)
C17_PruningLossless ==
  /\ (pc = "Done" /\ opens > 0)
       => output = Drain(gotten, 1, <<>>, WinStart, WinEnd)
  /\ C17_Lawful
       => /\ \A cs \in Archives(Len(Listed)) :
               Plain(output) = Plain(Drain(cs, 1, <<>>, WinStart, WinEnd))
          /\ Len(gotten) <= Len(Listed)

\* a key was pruned, the other one was fetched and gave rows
C17_Witness ==
  /\ C17_Lawful
  /\ \E n \in 1..Len(Listed) : IsPruned(n)
  /\ Len(gotten) = 1
  /\ Rows # <<>>

\* what a candidate object that decodes may hold
AnyDecoded ==
  {[get |-> "ok", body |-> "Records", recs |-> rs] : rs \in SeqsUpTo(Records, MaxRecs)}

\* the contents of the candidate objects: what the run got from the ones it
\* fetched, anything that decodes for the ones after a stop
RECURSIVE CandidateArchives(_)
CandidateArchives(n) ==
  IF n = 0 THEN {<<>>}
  ELSE {Append(cs, r) : cs \in CandidateArchives(n - 1),
                        r \in IF n <= Len(gotten) THEN {gotten[n]} ELSE AnyDecoded}

\* the ordering the archive promises: records in time order inside an object,
\* no record of a later object before the first record of an earlier one
Ordered(cs) ==
  /\ \A c \in 1..Len(cs) : \A a, b \in 1..Len(cs[c].recs) :
       a < b => cs[c].recs[a].Timestamp <= cs[c].recs[b].Timestamp
  /\ \A c, d \in 1..Len(cs) : \A b \in 1..Len(cs[d].recs) :
       c < d => cs[c].recs[1].Timestamp <= cs[d].recs[b].Timestamp

RECURSIVE AllRecords(_)
AllRecords(cs) ==
  IF cs = <<>> THEN <<>> ELSE Head(cs).recs \o AllRecords(Tail(cs))

\* a run that listed and drained without an exception, every object fetched
\* decoded
C18_NoFailure ==
  /\ pc = "Done"
  /\ opens > 0
  /\ exc = None
  /\ \A c \in 1..Len(gotten) : Decoded(gotten[c])

\* C18: when no object fails and the candidate objects, fetched or not, keep
\* the archive's ordering, the rows of the file are the records of all the
\* candidate objects, in order, that have the wanted Type and are inside the
\* window: the skip and the stop drop none of them.
C18_ShortcutsLossless ==
  C18_NoFailure
    => \A cs \in CandidateArchives(Len(keys)) :
         Ordered(cs)
           => [n \in 1..Len(Rows) |-> Rows[n].rec] = SelectSeq(AllRecords(cs), Matches)

\* the first object gave a row and the loop was ended by the second one
C18_Witness ==
  /\ C18_NoFailure
  /\ Len(keys) = 2
  /\ Len(gotten) = 2
  /\ Ordered(gotten)
  /\ RowsOf(1) # <<>>
  /\ FirstTs > WinEnd
  /\ i = 2

====
